---- MODULE Spec2Model ----
(***************************************************************************)
(* Model of core/tools/exporter.py (and the sibling core/tools/export.py)  *)
(* of dataset_manager: the dataset updater, the parallel export dispatch,  *)
(* the selection resolver and the cache fall-back of the entry points.     *)
(*                                                                         *)
(* Optional values (a field that may be missing, a file that may not       *)
(* exist, a cache key that may be unset) are sequences of length <= 1:     *)
(* << >> is "absent / None", <<v>> is "present with value v".              *)
(***************************************************************************)
EXTENDS Integers, FiniteSets, Sequences, TLC

VARIABLES
    fs_img,        \* media files present in the dataset's root directory
    fs_xml,        \* fs_xml[p]: content of the sidecar <stem of p>.xml, << >> if none
    db,            \* db[p]: saved state of the samples whose filepath is p
    cache,         \* WEAK_CACHE: which of the keys "dataset" / "session" are set
    run,           \* record of the update_dataset call that has just returned
    \* ---- parallel export dispatch ----
    job,           \* export: which entry point runs, and its arguments
    samples,       \* export: the dataset handed to the dispatcher, index -> sample
    epc,           \* export: position of the calling thread
    fut,           \* export: state of each submitted future
    collected,     \* export: futures whose result() the caller has taken
    save_dir,      \* export: save_dir[f] = set of tasks that wrote <f>.anno
    exporter,      \* export: lifecycle of the SGCCGameDatasetExporter
    \* ---- selection resolver / entry points ----
    call           \* the last entry-point call: its inputs and what it did

vars == <<fs_img, fs_xml, db, cache, run, job, samples, epc, fut, collected,
          save_dir, exporter, call>>

updVars == <<fs_img, fs_xml, db, cache, run>>
expVars == <<job, samples, epc, fut, collected, save_dir, exporter>>

-----------------------------------------------------------------------------
(* Bounds                                                                  *)

MaxPaths == 2
MaxContent == 2
MaxSamples == 3
MaxStems == 2

Paths == 1..MaxPaths
Contents == 1..MaxContent
Stems == 1..MaxStems

-----------------------------------------------------------------------------
(* Collaborators of the updater                                            *)

\* md5sum(xml_path): the checksum of a sidecar with content c.  Distinct
\* contents have distinct checksums; a checksum is not a content.
md5sum(c) == MaxContent + c

\* parse_sample_info(filepath): what a sidecar with content c parses to.
\* Two different contents can carry the same label (a re-saved file).
parse_sample_info(c) ==
    [metadata |-> <<c>>, ground_truth |-> <<(c + 1) \div 2>>, anno |-> <<c>>]

NoSample == [n |-> 0, metadata |-> << >>, ground_truth |-> << >>,
             anno |-> << >>, xml_md5 |-> << >>]

\* generate_sgcc_sample(img_path): a new sample for a media file, with the
\* sidecar parsed when there is one.
generate_sgcc_sample(xml) ==
    IF xml = << >>
    THEN [NoSample EXCEPT !.n = 1]
    ELSE [n |-> 1,
          metadata |-> parse_sample_info(xml[1]).metadata,
          ground_truth |-> parse_sample_info(xml[1]).ground_truth,
          anno |-> parse_sample_info(xml[1]).anno,
          xml_md5 |-> <<md5sum(xml[1])>>]

\* A sample that was put in the dataset by other means: no xml_md5 field.
ForeignSample == [NoSample EXCEPT !.n = 1]

-----------------------------------------------------------------------------
(* update_dataset                                                          *)

\* `img_path in dataset`
IsMember(d, p) == d[p].n > 0

\* sample.has_field("xml_md5")
has_field(s) == s.xml_md5 # << >>

\* os.path.exists(xml_path)
exists(xml) == xml # << >>

\* The loop body without the checksum comparison: reparse whenever the
\* sidecar exists.
UpdateSample_NoChecksumTest(s, xml) ==
    IF ~exists(xml)
    THEN [s EXCEPT !.ground_truth = << >>]
    ELSE [s EXCEPT !.metadata = parse_sample_info(xml[1]).metadata,
                   !.ground_truth = parse_sample_info(xml[1]).ground_truth,
                   !.anno = parse_sample_info(xml[1]).anno,
                   !.xml_md5 = <<md5sum(xml[1])>>]

\* The checksum-diff rule applied to one member (the in-memory sample after
\* the loop body).
UpdateSample(s, xml) ==
    IF ~exists(xml)
    THEN [s EXCEPT !.ground_truth = << >>]
    ELSE IF has_field(s)
         THEN IF s.xml_md5 # <<md5sum(xml[1])>>
              THEN [s EXCEPT !.metadata = parse_sample_info(xml[1]).metadata,
                             !.ground_truth = parse_sample_info(xml[1]).ground_truth,
                             !.anno = parse_sample_info(xml[1]).anno,
                             !.xml_md5 = <<md5sum(xml[1])>>]
              ELSE s
         ELSE s

\* Unattached mode: whether the iteration reaches context.save(sample).
ReachesSave(s, xml) == exists(xml) /\ has_field(s)

\* dataset.add_sample(s): one more sample with filepath p.
add_sample(d, p, s) == [s EXCEPT !.n = d[p].n + 1]

\* The updater without its membership test: every file found is added.
UnattachedOne_AlwaysAdd(d, p) ==
    add_sample(d, p, generate_sgcc_sample(fs_xml[p]))

\* Unattached mode: the saved state of path p after its loop iteration.
\* A member is written back only when the iteration reaches context.save;
\* the trailing dataset.save() stores dataset-level information only.
UnattachedOne(d, p) ==
    IF IsMember(d, p)
    THEN IF ReachesSave(d[p], fs_xml[p])
         THEN UpdateSample(d[p], fs_xml[p])
         ELSE d[p]
    ELSE add_sample(d, p, generate_sgcc_sample(fs_xml[p]))

\* Attached mode: iter_samples(autosave=True) saves every sample it yielded.
AttachedOne(d, p) == UpdateSample(d[p], fs_xml[p])

Members(d) == {p \in Paths : IsMember(d, p)}

\* The fall-back without its early return.
ResolveDataset_NoGuard(arg) == TRUE

\* exporter.py: `if dataset is None: dataset = WEAK_CACHE.get("dataset")`,
\* and whether a dataset is at hand after it (arg: one was passed).
ResolveDataset(arg) == arg \/ cache.dataset

\* export.py: the fall-back reads the dataset of the cached session.
ResolveDatasetBySession(arg) == arg \/ cache.session

NoRun == [op |-> "none", visited |-> {}, saved |-> {}, pre |-> db,
          refreshed |-> FALSE, repeat |-> FALSE, view |-> {}]

\* update_dataset(None) when no dataset is cached: warning, return.
UpdateNoCache ==
    /\ ~ResolveDataset(FALSE)
    /\ run' = [op |-> "nocache", visited |-> {}, saved |-> {}, pre |-> db,
               refreshed |-> FALSE, repeat |-> FALSE, view |-> {}]
    /\ UNCHANGED <<fs_img, fs_xml, db, cache>>

\* update_dataset(None) on an empty cached dataset: dataset.first() raises.
UpdateRaises ==
    /\ ResolveDataset(FALSE)
    /\ Members(db) = {}
    /\ run' = [op |-> "raised", visited |-> {}, saved |-> {}, pre |-> db,
               refreshed |-> FALSE, repeat |-> FALSE, view |-> {}]
    /\ UNCHANGED <<fs_img, fs_xml, db, cache>>

\* update_dataset(None) with a cached dataset.
UpdateUnattached ==
    /\ ResolveDataset(FALSE)
    /\ Members(db) # {}
    /\ db' = [p \in Paths |-> IF p \in fs_img THEN UnattachedOne(db, p) ELSE db[p]]
    /\ run' = [op |-> "unattached",
               visited |-> fs_img,
               saved |-> {p \in fs_img : IsMember(db, p) /\ ReachesSave(db[p], fs_xml[p])},
               pre |-> db,
               refreshed |-> cache.session,
               repeat |-> (run.op = "unattached"),
               view |-> {}]
    /\ UNCHANGED <<fs_img, fs_xml, cache>>

\* update_dataset(view) with an explicit dataset or view.
UpdateAttached ==
    \E view \in SUBSET Members(db) :
        /\ db' = [p \in Paths |-> IF p \in view THEN AttachedOne(db, p) ELSE db[p]]
        /\ run' = [op |-> "attached",
                   visited |-> view,
                   saved |-> view,
                   pre |-> db,
                   refreshed |-> cache.session,
                   repeat |-> (run.op = "attached" /\ run.view = view),
                   view |-> view]
        /\ UNCHANGED <<fs_img, fs_xml, cache>>

-----------------------------------------------------------------------------
(* The filesystem between two update runs                                  *)

WriteSidecar ==
    \E p \in Paths, c \in Contents :
        /\ fs_xml[p] # <<c>>
        /\ fs_xml' = [fs_xml EXCEPT ![p] = <<c>>]
        /\ run' = [NoRun EXCEPT !.pre = db]
        /\ UNCHANGED <<fs_img, db, cache>>

DeleteSidecar ==
    \E p \in Paths :
        /\ fs_xml[p] # << >>
        /\ fs_xml' = [fs_xml EXCEPT ![p] = << >>]
        /\ run' = [NoRun EXCEPT !.pre = db]
        /\ UNCHANGED <<fs_img, db, cache>>

AddMedia ==
    \E p \in Paths :
        /\ p \notin fs_img
        /\ fs_img' = fs_img \cup {p}
        /\ run' = [NoRun EXCEPT !.pre = db]
        /\ UNCHANGED <<fs_xml, db, cache>>

-----------------------------------------------------------------------------

ExportIdle ==
    /\ job = [fn |-> "none", get_anno |-> FALSE, dataset |-> FALSE]
    /\ samples = << >>
    /\ epc = "idle"
    /\ fut = << >>
    /\ collected = {}
    /\ save_dir = [f \in Stems |-> {}]
    /\ exporter = "none"

NoEffect == [mkdir |-> FALSE, exporter |-> FALSE, submitted |-> 0,
             refreshed |-> FALSE, changed |-> FALSE]

NoView == [kind |-> "None", ids |-> {}]
View(ids) == [kind |-> "view", ids |-> ids]

NoCall == [fn |-> "none", module |-> "exporter", arg |-> FALSE, txt |-> "none",
           lines |-> {}, selected |-> {}, result |-> NoView, eff |-> NoEffect]

\* A dataset as the importer leaves it: every member either in sync with the
\* sidecar it was imported with, or without the xml_md5 field.  The launcher
\* caches the dataset and its session together, or nothing yet.
InitUpdate ==
    /\ fs_img \in SUBSET Paths
    /\ fs_xml \in [Paths -> {<< >>} \cup {<<c>> : c \in Contents}]
    /\ db \in [Paths -> {NoSample, ForeignSample}
                        \cup {generate_sgcc_sample(<<c>>) : c \in Contents}]
    /\ \A p \in Paths :
          /\ IsMember(db, p) => p \in fs_img
          /\ has_field(db[p]) => db[p] = generate_sgcc_sample(fs_xml[p])
    /\ cache \in {[dataset |-> b, session |-> b] : b \in BOOLEAN}
    /\ run = [NoRun EXCEPT !.pre = db]
    /\ ExportIdle
    /\ call = NoCall

NextUpdate ==
    \/ UpdateNoCache /\ UNCHANGED <<expVars, call>>
    \/ UpdateRaises /\ UNCHANGED <<expVars, call>>
    \/ UpdateUnattached /\ UNCHANGED <<expVars, call>>
    \/ UpdateAttached /\ UNCHANGED <<expVars, call>>
    \/ WriteSidecar /\ UNCHANGED <<expVars, call>>
    \/ DeleteSidecar /\ UNCHANGED <<expVars, call>>
    \/ AddMedia /\ UNCHANGED <<expVars, call>>

SpecUpdate == InitUpdate /\ [][NextUpdate]_vars


-----------------------------------------------------------------------------
(* export_anno_file / export_sample: the parallel dispatch                 *)

\* futures.ThreadPoolExecutor(48)
MaxWorkers == 48

N == Len(samples)
Tasks == 1..Len(fut)

Finished(i) == fut[i] \in {"done", "failed"}
Active == {i \in Tasks : fut[i] \in {"running", "writing"}}

\* Whether the task of sample i writes an .anno file: always for
\* export_anno_file, under get_anno for export_sample.
WritesAnno == job.fn = "export_anno_file" \/ job.get_anno

\* The entry guard: with no dataset argument and none cached, return.
ExportNoDataset ==
    /\ epc = "idle"
    /\ ~job.dataset
    /\ epc' = "returned"
    /\ UNCHANGED <<job, samples, fut, collected, save_dir, exporter>>

\* mkdir, (export_sample: open the exporter, log the collection), and the
\* executor is created.
ExportBegin ==
    /\ epc = "idle"
    /\ job.dataset
    /\ exporter' = IF job.fn = "export_sample" THEN "open" ELSE exporter
    /\ epc' = IF N = 0 THEN "collecting" ELSE "submitting"
    /\ UNCHANGED <<job, samples, fut, collected, save_dir>>

\* exec.submit(...) for the next sample of the list comprehension.
Submit ==
    /\ epc = "submitting"
    /\ fut' = Append(fut, "pending")
    /\ epc' = IF Len(fut') = N THEN "collecting" ELSE "submitting"
    /\ UNCHANGED <<job, samples, collected, save_dir, exporter>>

\* A worker thread takes the oldest queued work item.
WorkerStart ==
    \E i \in Tasks :
        /\ fut[i] = "pending"
        /\ \A j \in 1..(i - 1) : fut[j] # "pending"
        /\ Cardinality(Active) < MaxWorkers
        /\ fut' = [fut EXCEPT ![i] = "running"]
        /\ UNCHANGED <<job, samples, epc, collected, save_dir, exporter>>

\* The task raises (missing metadata, missing label field, I/O error) before
\* it opens its output file.
WorkerRaise ==
    \E i \in Tasks :
        /\ fut[i] = "running"
        /\ ~samples[i].ok
        /\ fut' = [fut EXCEPT ![i] = "failed"]
        /\ UNCHANGED <<job, samples, epc, collected, save_dir, exporter>>

\* open(save_path, "w"): the file named by the sample's stem is created or
\* truncated by task i.
WorkerOpen ==
    \E i \in Tasks :
        /\ fut[i] = "running"
        /\ samples[i].ok
        /\ WritesAnno
        /\ save_dir' = [save_dir EXCEPT ![samples[i].stem] = @ \cup {i}]
        /\ fut' = [fut EXCEPT ![i] = "writing"]
        /\ UNCHANGED <<job, samples, epc, collected, exporter>>

\* json.dump and close (or, without get_anno, the exporter call alone): the
\* task returns.
WorkerDone ==
    \E i \in Tasks :
        /\ \/ fut[i] = "writing"
           \/ fut[i] = "running" /\ samples[i].ok /\ ~WritesAnno
        /\ fut' = [fut EXCEPT ![i] = "done"]
        /\ UNCHANGED <<job, samples, epc, collected, save_dir, exporter>>

\* as_completed hands out a finished future the caller has not seen yet.
Completed == {i \in Tasks : Finished(i) /\ i \notin collected}

\* The for loop over as_completed(tasks) runs after the list of futures is
\* built.
CanCollect == epc = "collecting"

\* task.result() of a future that succeeded.
CollectResult ==
    \E i \in Completed :
        /\ CanCollect
        /\ fut[i] = "done"
        /\ collected' = collected \cup {i}
        /\ UNCHANGED <<job, samples, epc, fut, save_dir, exporter>>

\* task.result() of a future that failed: the exception leaves the loop.
CollectException ==
    \E i \in Completed :
        /\ CanCollect
        /\ fut[i] = "failed"
        /\ collected' = collected \cup {i}
        /\ epc' = "unwinding"
        /\ UNCHANGED <<job, samples, fut, save_dir, exporter>>

\* An executor that does not wait for its work items when it is left.
ShutdownReturns_NoWait == TRUE

\* ThreadPoolExecutor.__exit__ is shutdown(wait=True): it returns when every
\* submitted work item has run.
ShutdownReturns == \A i \in Tasks : Finished(i)

ExporterAfter == IF exporter = "open" THEN "closed" ELSE exporter

\* The loop ended normally; the executor and the exporter are left.
ExportReturn ==
    /\ epc = "collecting"
    /\ collected = 1..N
    /\ ShutdownReturns
    /\ epc' = "returned"
    /\ exporter' = ExporterAfter
    /\ UNCHANGED <<job, samples, fut, collected, save_dir>>

\* The exception passes the executor's and the exporter's __exit__ and
\* reaches the caller.
ExportRaise ==
    /\ epc = "unwinding"
    /\ ShutdownReturns
    /\ epc' = "raised"
    /\ exporter' = ExporterAfter
    /\ UNCHANGED <<job, samples, fut, collected, save_dir>>

UpdateIdle ==
    /\ fs_img = {}
    /\ fs_xml = [p \in Paths |-> << >>]
    /\ db = [p \in Paths |-> NoSample]
    /\ cache = [dataset |-> FALSE, session |-> FALSE]
    /\ run = [NoRun EXCEPT !.pre = db]

InitExport ==
    /\ UpdateIdle
    /\ call = NoCall
    /\ job \in [fn : {"export_anno_file", "export_sample"},
                get_anno : BOOLEAN, dataset : BOOLEAN]
    /\ job.fn = "export_anno_file" => job.get_anno
    /\ samples \in UNION {[1..n -> [stem : Stems, ok : BOOLEAN]] : n \in 0..MaxSamples}
    /\ ~job.dataset => samples = << >>
    /\ epc = "idle"
    /\ fut = << >>
    /\ collected = {}
    /\ save_dir = [f \in Stems |-> {}]
    /\ exporter = "none"

NextExport ==
    \/ ExportNoDataset /\ UNCHANGED <<updVars, call>>
    \/ ExportBegin /\ UNCHANGED <<updVars, call>>
    \/ Submit /\ UNCHANGED <<updVars, call>>
    \/ WorkerStart /\ UNCHANGED <<updVars, call>>
    \/ WorkerRaise /\ UNCHANGED <<updVars, call>>
    \/ WorkerOpen /\ UNCHANGED <<updVars, call>>
    \/ WorkerDone /\ UNCHANGED <<updVars, call>>
    \/ CollectResult /\ UNCHANGED <<updVars, call>>
    \/ CollectException /\ UNCHANGED <<updVars, call>>
    \/ ExportReturn /\ UNCHANGED <<updVars, call>>
    \/ ExportRaise /\ UNCHANGED <<updVars, call>>

SpecExport == InitExport /\ [][NextExport]_vars

-----------------------------------------------------------------------------
(* The entry points as single calls: what each one does to the outside     *)

\* bool(dataset): a cached dataset counts when it holds a sample.
Truthy(d) == Members(d) # {}

\* get_select_dv with `if dataset:` in place of `if dataset and session:`.
get_select_dv_IgnoresSession(txt, lines, selected) ==
    IF cache.dataset /\ Truthy(db)
    THEN IF txt # "none"
         THEN IF txt = "file" THEN View(Members(db) \cap lines) ELSE NoView
         ELSE View(Members(db) \cap selected)
    ELSE NoView

\* get_select_dv(txt_path).  txt: "none" (no argument), "file" (an existing
\* path-list file holding `lines`), "missing" (a path that does not exist).
get_select_dv(txt, lines, selected) ==
    IF (cache.dataset /\ Truthy(db)) /\ cache.session
    THEN IF txt # "none"
         THEN IF txt = "file" THEN View(Members(db) \cap lines) ELSE NoView
         ELSE View(Members(db) \cap selected)
    ELSE NoView

CallGetSelectDv ==
    \E txt \in {"none", "file", "missing"}, lines \in SUBSET Paths,
       selected \in SUBSET Paths :
        /\ txt # "file" => lines = {}
        /\ (~cache.session \/ txt # "none") => selected = {}
        /\ call' = [NoCall EXCEPT !.fn = "get_select_dv", !.txt = txt,
                                  !.lines = lines, !.selected = selected,
                                  !.result = get_select_dv(txt, lines, selected)]
        /\ run' = [NoRun EXCEPT !.pre = db]
        /\ UNCHANGED <<fs_img, fs_xml, db, cache, expVars>>

\* What a dispatch over the dataset does once it is past the guard: the
\* directory is made when missing, the exporter opened (export_sample), one
\* task submitted per sample.
ExportEffect(have, fn, dir_exists) ==
    IF have
    THEN [NoEffect EXCEPT !.mkdir = ~dir_exists,
                          !.exporter = (fn = "export_sample"),
                          !.submitted = Cardinality(Members(db))]
    ELSE NoEffect

\* exporter.py: export_anno_file / export_sample (save_dir, dataset=arg)
CallExport ==
    \E fn \in {"export_anno_file", "export_sample"}, arg \in BOOLEAN,
       dir_exists \in BOOLEAN :
        /\ call' = [NoCall EXCEPT !.fn = fn, !.arg = arg,
                        !.eff = ExportEffect(ResolveDataset(arg), fn, dir_exists)]
        /\ run' = [NoRun EXCEPT !.pre = db]
        /\ UNCHANGED <<fs_img, fs_xml, db, cache, expVars>>

\* export.py: export_anno_file / export_sample (save_dir, dataset=arg)
CallExportBySession ==
    \E fn \in {"export_anno_file", "export_sample"}, arg \in BOOLEAN,
       dir_exists \in BOOLEAN :
        /\ call' = [NoCall EXCEPT !.fn = fn, !.module = "export", !.arg = arg,
                        !.eff = ExportEffect(ResolveDatasetBySession(arg), fn, dir_exists)]
        /\ run' = [NoRun EXCEPT !.pre = db]
        /\ UNCHANGED <<fs_img, fs_xml, db, cache, expVars>>

UpdateCall(arg) ==
    [NoCall EXCEPT !.fn = "update_dataset", !.arg = arg,
                   !.eff = [NoEffect EXCEPT !.refreshed = run'.refreshed,
                                            !.changed = (db' # db)]]

\* add_dataset_fields_by_txt(txt_path, fields_dict, dataset=arg): every
\* member listed in the file gets the extra field value v.
AddFields(lines, v) ==
    [p \in Paths |-> IF IsMember(db, p) /\ p \in lines
                     THEN [db[p] EXCEPT !.anno = <<v>>]
                     ELSE db[p]]

CallAddFields ==
    \E arg \in BOOLEAN, lines \in SUBSET Paths, v \in Contents :
        /\ IF ResolveDataset(arg)
           THEN /\ db' = AddFields(lines, v)
                /\ call' = [NoCall EXCEPT !.fn = "add_dataset_fields_by_txt",
                                !.arg = arg, !.txt = "file", !.lines = lines,
                                !.eff = [NoEffect EXCEPT !.refreshed = cache.session,
                                                         !.changed = (db' # db)]]
           ELSE /\ db' = db
                /\ call' = [NoCall EXCEPT !.fn = "add_dataset_fields_by_txt",
                                !.arg = arg, !.txt = "file", !.lines = lines]
        /\ run' = [NoRun EXCEPT !.pre = db']
        /\ UNCHANGED <<fs_img, fs_xml, cache, expVars>>

\* Any combination of the two cache keys, over a directory without sidecars.
InitCalls ==
    /\ fs_img \in SUBSET Paths
    /\ fs_xml = [p \in Paths |-> << >>]
    /\ db \in [Paths -> {NoSample, ForeignSample}]
    /\ \A p \in Paths : IsMember(db, p) => p \in fs_img
    /\ cache \in [dataset : BOOLEAN, session : BOOLEAN]
    /\ run = [NoRun EXCEPT !.pre = db]
    /\ ExportIdle
    /\ call = NoCall

NextCalls ==
    \/ CallGetSelectDv
    \/ CallExport
    \/ CallExportBySession
    \/ CallAddFields
    \/ UpdateNoCache /\ call' = UpdateCall(FALSE) /\ UNCHANGED expVars
    \/ UpdateRaises /\ call' = UpdateCall(FALSE) /\ UNCHANGED expVars
    \/ UpdateUnattached /\ call' = UpdateCall(FALSE) /\ UNCHANGED expVars
    \/ UpdateAttached /\ call' = UpdateCall(TRUE) /\ UNCHANGED expVars

SpecCalls == InitCalls /\ [][NextCalls]_vars

-----------------------------------------------------------------------------
(* Properties of the entry points                                          *)

Selecting == call.fn = "get_select_dv"

\* C8 as stated: with a non-empty dataset cached, an existing path-list file
\* yields the path-filtered subset whether or not a session is cached; with
\* no file the session's selection is returned; with no dataset, None.
C8_PathListNeedsNoSession ==
    Selecting =>
        /\ (cache.dataset /\ Truthy(db) /\ call.txt = "file") =>
              call.result = View(Members(db) \cap call.lines)
        /\ (cache.dataset /\ Truthy(db) /\ cache.session /\ call.txt = "none") =>
              call.result = View(Members(db) \cap call.selected)
        /\ ~cache.dataset => call.result = NoView

\* C8 amended: the path-filtered subset when a non-empty dataset and a
\* session are both cached and an existing path-list file is given; the
\* session's selected subset when both are cached and no file is given; None
\* when the dataset or the session is not cached, when the cached dataset is
\* empty, or when the path-list file does not exist.
C8_SelectionNeedsDatasetAndSession ==
    Selecting =>
        /\ (cache.dataset /\ Truthy(db) /\ cache.session /\ call.txt = "file") =>
              call.result = View(Members(db) \cap call.lines)
        /\ (cache.dataset /\ Truthy(db) /\ cache.session /\ call.txt = "none") =>
              call.result = View(Members(db) \cap call.selected)
        /\ (~cache.dataset \/ ~cache.session \/ ~Truthy(db) \/ call.txt = "missing") =>
              call.result = NoView

C8_Witness ==
    /\ Selecting
    /\ cache.dataset /\ Truthy(db) /\ ~cache.session
    /\ call.txt = "file"
    /\ Members(db) \cap call.lines # {}
    /\ call.result = NoView

Exporting == call.fn \in {"export_anno_file", "export_sample"}

Unchanged == call.eff = NoEffect

\* C9 as stated: a call of export_anno_file, export_sample, update_dataset or
\* add_dataset_fields_by_txt without a dataset argument, made while no
\* dataset is cached, has no effect at all.
C9_NoCachedDatasetNoEffect ==
    (call.fn # "none" /\ ~Selecting /\ ~call.arg /\ ~cache.dataset) => Unchanged

\* C9 amended: such a call has no effect when the cache entry the function
\* falls back on is unset: "dataset" for the four functions of exporter.py,
\* "session" for export_anno_file and export_sample of export.py.
C9_NoFallbackNoEffect ==
    /\ (call.fn # "none" /\ ~Selecting /\ call.module = "exporter"
            /\ ~call.arg /\ ~cache.dataset) =>
          /\ Unchanged
          /\ call.fn = "update_dataset" => (run.op = "nocache" /\ db = run.pre)
    /\ (Exporting /\ call.module = "export" /\ ~call.arg /\ ~cache.session) =>
          Unchanged

C9_Witness ==
    /\ Exporting
    /\ call.module = "exporter"
    /\ ~call.arg /\ ~cache.dataset /\ cache.session
    /\ Truthy(db)
    /\ Unchanged

-----------------------------------------------------------------------------
(* Properties of the dispatch                                              *)

AnnoFiles == {f \in Stems : save_dir[f] # {}}

\* C6: when export_anno_file over N samples returns normally, save_dir holds
\* exactly N .anno files, and no file was written by two worker tasks.
C6_OneAnnoFilePerSample ==
    (epc = "returned" /\ job.fn = "export_anno_file" /\ job.dataset) =>
        /\ Cardinality(AnnoFiles) = N
        /\ \A f \in Stems : Cardinality(save_dir[f]) <= 1

\* C7: no result is collected before all N tasks are submitted; the call
\* returns normally only when every task has succeeded; it raises only at a
\* failed result, the first one collected, and only after every submitted
\* task has run to completion (none is cancelled or left queued).
C7_DispatchWaitsAndPropagates ==
    /\ collected # {} => Len(fut) = N
    /\ (epc = "returned" /\ job.dataset) =>
          /\ Len(fut) = N
          /\ \A i \in 1..N : fut[i] = "done"
    /\ epc \in {"unwinding", "raised"} =>
          Cardinality({i \in collected : fut[i] = "failed"}) = 1
    /\ epc = "raised" =>
          /\ Len(fut) = N
          /\ \A i \in 1..N : Finished(i)

C7_Witness ==
    /\ epc = "raised"
    /\ \E i \in Tasks : i \notin collected /\ fut[i] = "done"
    /\ \E j \in Tasks : j \notin collected /\ fut[j] = "failed"

-----------------------------------------------------------------------------
(* Properties of update_dataset                                            *)

Updated == run.op \in {"unattached", "attached"}

InSync(s, xml) == exists(xml) /\ s.xml_md5 = <<md5sum(xml[1])>>

\* C1: after an update run (either mode), every visited member whose sidecar
\* exists has xml_md5 equal to the sidecar's current checksum and carries the
\* metadata, label and extra fields parsed from it whenever its cached
\* checksum was absent or different.
C1_StaleOrAbsentChecksumIsReparsed ==
    Updated =>
        \A p \in run.visited :
            (IsMember(run.pre, p) /\ exists(fs_xml[p])) =>
                /\ db[p].xml_md5 = <<md5sum(fs_xml[p][1])>>
                /\ ~InSync(run.pre[p], fs_xml[p]) =>
                      /\ db[p].ground_truth = parse_sample_info(fs_xml[p][1]).ground_truth
                      /\ db[p].metadata = parse_sample_info(fs_xml[p][1]).metadata
                      /\ db[p].anno = parse_sample_info(fs_xml[p][1]).anno

\* C2: after an update run (either mode), every visited member whose sidecar
\* does not exist has its ground_truth cleared in the saved state, whatever
\* its cached xml_md5.
C2_DeletedSidecarClearsSavedLabel ==
    Updated =>
        \A p \in run.visited :
            (IsMember(run.pre, p) /\ ~exists(fs_xml[p])) =>
                db[p].ground_truth = << >>

\* C3: an unattached run adds exactly one sample for every media file of the
\* directory that was not a member and none for any other path; an attached
\* run leaves the number of samples of every path as it was.
C3_OnlyUnattachedAddsNewFiles ==
    /\ run.op = "unattached" =>
          \A p \in Paths :
              db[p].n = IF p \in fs_img /\ run.pre[p].n = 0 THEN 1 ELSE run.pre[p].n
    /\ run.op = "attached" =>
          \A p \in Paths : db[p].n = run.pre[p].n

C3_Witness ==
    /\ run.op = "unattached"
    /\ \E p \in fs_img : run.pre[p].n = 0 /\ db[p].n = 1
    /\ \E q \in fs_img : run.pre[q].n = 1 /\ db[q].n = 1

\* C4: after an update run, a member whose sidecar exists and whose cached
\* xml_md5 equalled the sidecar's checksum is exactly as it was; and a run
\* that repeats the previous run with no filesystem change in between leaves
\* the whole dataset as the previous run left it.
C4_UnchangedChecksumLeavesSampleAlone ==
    Updated =>
        /\ \A p \in Paths :
              (IsMember(run.pre, p) /\ InSync(run.pre[p], fs_xml[p])) =>
                  db[p] = run.pre[p]
        /\ run.repeat => db = run.pre

C4_Witness ==
    /\ Updated
    /\ run.repeat
    /\ \E p \in run.visited : IsMember(run.pre, p) /\ InSync(run.pre[p], fs_xml[p])
    /\ \E q \in run.visited : IsMember(run.pre, q) /\ ~exists(fs_xml[q])

\* C5: in an unattached run every visited media file that was already a
\* member is saved through the batch-save context.
C5_EveryVisitedMemberIsSaved ==
    run.op = "unattached" =>
        \A p \in run.visited : IsMember(run.pre, p) => p \in run.saved

\* C10: whenever an update run has finished and a member it visited has a
\* sidecar with the member's xml_md5 equal to its checksum, the member's
\* ground_truth is the label parsed from that sidecar.
C10_MatchingChecksumMeansCurrentLabel ==
    Updated =>
        \A p \in run.visited :
            (IsMember(db, p) /\ InSync(db[p], fs_xml[p])) =>
                db[p].ground_truth = parse_sample_info(fs_xml[p][1]).ground_truth

====
